---- MODULE Spec2Model ----
(***************************************************************************)
(* Model of api/generate.js: the per-user conversation memory (loadMemory, *)
(* saveMemory) and the request handler with its reply pipeline.            *)
(*                                                                         *)
(* Strings are sequences of UTF-16 code units, as JavaScript strings are.  *)
(***************************************************************************)
EXTENDS Integers, Sequences, FiniteSets

\* ------------------------------------------------------------------------
\* Bounds of the model
\* ------------------------------------------------------------------------
\* number of requests the handler is invoked for in one behaviour
MaxReqs == 2
\* number of fragments a completion text is built from (text pipeline)
MaxFrags == 3

Reqs == 1..MaxReqs

\* ------------------------------------------------------------------------
\* JavaScript values that can arrive in a JSON body
\* ------------------------------------------------------------------------
Undefined == [t |-> "undefined", s |-> <<>>, n |-> 0]
Null == [t |-> "null", s |-> <<>>, n |-> 0]
Str(s) == [t |-> "string", s |-> s, n |-> 0]
Num(n) == [t |-> "number", s |-> <<>>, n |-> n]

\* ToBoolean: undefined, null, "" and 0 are falsy
Truthy(v) ==
    CASE v.t = "undefined" -> FALSE
      [] v.t = "null" -> FALSE
      [] v.t = "string" -> v.s # <<>>
      [] v.t = "number" -> v.n # 0
      [] OTHER -> TRUE

TypeOf(v) == IF v.t = "null" THEN "object" ELSE v.t

\* ------------------------------------------------------------------------
\* Text: the reply pipeline's string operations
\* ------------------------------------------------------------------------
\* Canonicalize of a non-unicode /i regex, on the code units used here:
\* a-z map to A-Z, every other code unit to itself
Canonicalize(c) == IF c >= 97 /\ c <= 122 THEN c - 32 ELSE c

\* does pattern pat match text at index i (1-based), ignoring case
MatchesAt(text, pat, i) ==
    /\ i + Len(pat) - 1 <= Len(text)
    /\ \A k \in 1..Len(pat) :
          Canonicalize(text[i + k - 1]) = Canonicalize(pat[k])

\* does text contain pat, ignoring case
ContainsCI(text, pat) == \E i \in 1..Len(text) : MatchesAt(text, pat, i)

\* String.prototype.replace(/pat/gi, ""): one left-to-right pass; a match is
\* dropped and the scan resumes right after it
RECURSIVE ReplaceFrom(_, _, _)
ReplaceFrom(text, pat, i) ==
    IF i > Len(text) THEN <<>>
    ELSE IF MatchesAt(text, pat, i) THEN ReplaceFrom(text, pat, i + Len(pat))
    ELSE <<text[i]>> \o ReplaceFrom(text, pat, i + 1)

ReplaceAll(text, pat) == ReplaceFrom(text, pat, 1)

\* "as an ai"
PatAsAnAi == <<97, 115, 32, 97, 110, 32, 97, 105>>
\* "i do not have feelings"
PatNoFeelings ==
    <<105, 32, 100, 111, 32, 110, 111, 116, 32, 104, 97, 118, 101, 32,
      102, 101, 101, 108, 105, 110, 103, 115>>
\* "i am just a language model"
PatJustModel ==
    <<105, 32, 97, 109, 32, 106, 117, 115, 116, 32, 97, 32, 108, 97, 110,
      103, 117, 97, 103, 101, 32, 109, 111, 100, 101, 108>>
\* "as a language model"
PatAsModel ==
    <<97, 115, 32, 97, 32, 108, 97, 110, 103, 117, 97, 103, 101, 32, 109,
      111, 100, 101, 108>>
\* "i cannot experience emotions"
PatNoEmotions ==
    <<105, 32, 99, 97, 110, 110, 111, 116, 32, 101, 120, 112, 101, 114, 105,
      101, 110, 99, 101, 32, 101, 109, 111, 116, 105, 111, 110, 115>>
\* "i am an artificial intelligence"
PatArtificial ==
    <<105, 32, 97, 109, 32, 97, 110, 32, 97, 114, 116, 105, 102, 105, 99,
      105, 97, 108, 32, 105, 110, 116, 101, 108, 108, 105, 103, 101, 110,
      99, 101>>

bannedPatterns ==
    <<PatAsAnAi, PatNoFeelings, PatJustModel, PatAsModel, PatNoEmotions,
      PatArtificial>>

\* bannedPatterns.forEach(p => text = text.replace(p, "")), from pattern k on
RECURSIVE SanitizeFrom(_, _)
SanitizeFrom(text, k) ==
    IF k > Len(bannedPatterns) THEN text
    ELSE SanitizeFrom(ReplaceAll(text, bannedPatterns[k]), k + 1)

Sanitize(text) == SanitizeFrom(text, 1)

\* The character class of the emoji test has no u flag, so its members are
\* the single UTF-16 code units of the glyphs written in it:
\* D83D DE00, D83D DE04, D83D DE0A, D83D DE09, 2728, D83D DD25, D83D DCA1,
\* 2764 FE0F, D83D DC4D, D83C DF89, D83D DE80, D83E DD17, D83D DC99,
\* D83D DE0E, D83D DCAA
EmojiClass ==
    {55357, 56832, 56836, 56842, 56841, 10024, 56613, 56481, 10084, 65039,
     56397, 55356, 57225, 56960, 55358, 56599, 56473, 56846, 56490}

HasEmoji(text) == \E i \in 1..Len(text) : text[i] \in EmojiClass

\* the candidate glyphs, in source order
emojis ==
    << <<55357, 56836>>, <<55357, 56481>>, <<10024>>, <<55357, 56613>>,
       <<55357, 56397>>, <<55356, 57225>>, <<55357, 56960>>,
       <<55358, 56599>>, <<55357, 56490>>, <<55357, 56846>> >>

\* the indices Math.floor(Math.random() * emojis.length) can yield
RandomIndices == 0..(Len(emojis) - 1)

\* an affect step that adds a glyph whatever the text holds
AddEmojiAlways(text, idx) == text \o <<32>> \o emojis[idx + 1]

\* text += " " + emojis[idx] when the emoji test fails
AddEmoji(text, idx) ==
    IF ~HasEmoji(text) THEN text \o <<32>> \o emojis[idx + 1] ELSE text

\* "No reply generated."
NoReply ==
    <<78, 111, 32, 114, 101, 112, 108, 121, 32, 103, 101, 110, 101, 114, 97,
      116, 101, 100, 46>>

\* ------------------------------------------------------------------------
\* The completion service's answers
\* ------------------------------------------------------------------------
\* kind "text": choices[0].message.content is the string s (maybe empty);
\* "nullcontent": content is null; "nomessage": choices[0] has no message;
\* "nochoices": choices is empty
Answer(kind, s) == [kind |-> kind, s |-> s]

\* a content read with no fallback: the content, or the empty text
ContentNoFallback(ans) == ans.s

\* response.choices[0]?.message?.content || "No reply generated."
ContentOrFallback(ans) ==
    IF ans.kind = "text" /\ ans.s # <<>> THEN ans.s ELSE NoReply

\* ------------------------------------------------------------------------
\* File paths
\* ------------------------------------------------------------------------
\* decimal digits of a natural number
RECURSIVE Digits(_)
Digits(n) == IF n < 10 THEN <<48 + n>> ELSE Digits(n \div 10) \o <<48 + (n % 10)>>

\* ${v} in a template literal, for the values a userId can be
TemplateString(v) == IF v.t = "number" THEN Digits(v.n) ELSE v.s

\* the segments of s between "/" characters; seg is the segment being read
RECURSIVE SplitFrom(_, _, _)
SplitFrom(s, i, seg) ==
    IF i > Len(s) THEN <<seg>>
    ELSE IF s[i] = 47 THEN <<seg>> \o SplitFrom(s, i + 1, <<>>)
    ELSE SplitFrom(s, i + 1, Append(seg, s[i]))

\* path.normalize on the segments of an absolute path: "" and "." are
\* dropped, ".." removes the segment before it
RECURSIVE NormalizeFrom(_, _, _)
NormalizeFrom(segs, i, acc) ==
    IF i > Len(segs) THEN acc
    ELSE IF segs[i] = <<>> \/ segs[i] = <<46>> THEN NormalizeFrom(segs, i + 1, acc)
    ELSE IF segs[i] = <<46, 46>> THEN
        NormalizeFrom(segs, i + 1,
                      IF acc = <<>> THEN acc ELSE SubSeq(acc, 1, Len(acc) - 1))
    ELSE NormalizeFrom(segs, i + 1, Append(acc, segs[i]))

\* "/tmp/memory", as its segments
MEMORY_DIR == << <<116, 109, 112>>, <<109, 101, 109, 111, 114, 121>> >>

\* path.join(MEMORY_DIR, `memory_${userId}.json`), as the segments of the
\* normalized absolute path
FilePath(userId) ==
    NormalizeFrom(
        MEMORY_DIR
          \o SplitFrom(<<109, 101, 109, 111, 114, 121, 95>> \o TemplateString(userId)
                         \o <<46, 106, 115, 111, 110>>, 1, <<>>),
        1, <<>>)

\* the directories that exist: "/", "/tmp" and MEMORY_DIR (made at start-up)
Dirs == {<<>>, SubSeq(MEMORY_DIR, 1, 1), MEMORY_DIR}

Dirname(p) == SubSeq(p, 1, Len(p) - 1)

\* ------------------------------------------------------------------------
\* Conversation records
\* ------------------------------------------------------------------------
Turn(role, content) == [role |-> role, content |-> content]

\* the system prompt (its first words stand for the whole constant text)
SystemPrompt == <<89, 111, 117, 32, 97, 114, 101>>

\* a template that starts with no system turn
DefaultMemoryNoSystem(userId) ==
    [userId |-> userId, lastProject |-> Null, lastTask |-> Null,
     conversation |-> <<>>]

\* the default memory template
DefaultMemory(userId) ==
    [userId |-> userId, lastProject |-> Null, lastTask |-> Null,
     conversation |-> <<Turn("system", SystemPrompt)>>]

\* JSON.stringify(memory, null, 2): the file text that holds the record
Stringify(memory) == [kind |-> "json", val |-> memory]

\* JSON.parse of a file text that is JSON
Parse(content) == content.val

\* the object {}: every field undefined. Its `conversation`, which is
\* undefined and no array, is written <<>>; no record the handler builds has
\* an undefined lastTask
EmptyObject ==
    [userId |-> Undefined, lastProject |-> Undefined, lastTask |-> Undefined,
     conversation |-> <<>>]

\* a file text that is empty or stops short of its end: JSON.parse throws
CutShort == [kind |-> "cut", val |-> DefaultMemory(Undefined)]

\* a file that cannot be read: readFileSync throws
Unreadable == [kind |-> "unreadable", val |-> DefaultMemory(Undefined)]

\* lines 19-21: readFileSync and JSON.parse return without throwing
Parses(content) == content.kind = "json"

\* a load that never reads the file
loadMemoryFresh(fs, userId) == DefaultMemory(userId)

\* loadMemory(userId) on the file system fs (a function from the paths of
\* the files that exist to their contents): what JSON.parse returns, and the
\* default template when the file is absent or the read or the parse throws
loadMemory(fs, userId) ==
    IF FilePath(userId) \in DOMAIN fs /\ Parses(fs[FilePath(userId)])
    THEN Parse(fs[FilePath(userId)])
    ELSE DefaultMemory(userId)

\* the outcomes of writeFileSync on the device: the text is written ("ok"),
\* the file cannot be opened ("fail"), or the file is opened, which empties
\* it, and the write of the text then fails ("cut")
DiskOutcomes == {"ok", "fail", "cut"}

\* can writeFileSync create or overwrite the file: its directory must exist
\* and the device must take the write
WriteSucceeds(p, disk) == disk = "ok" /\ Dirname(p) \in Dirs

\* writeFileSync opens the file and fails after that
WriteCuts(p, disk) == disk = "cut" /\ Dirname(p) \in Dirs

\* the file system after writeFileSync(p, content)
WriteFile(fs, p, content, disk) ==
    IF WriteSucceeds(p, disk)
    THEN [f \in DOMAIN fs \cup {p} |-> IF f = p THEN content ELSE fs[f]]
    ELSE IF WriteCuts(p, disk)
    THEN [f \in DOMAIN fs \cup {p} |-> IF f = p THEN CutShort ELSE fs[f]]
    ELSE fs

\* a save that creates the file but never overwrites one
saveMemoryKeepExisting(fs, userId, memory, disk) ==
    IF FilePath(userId) \notin DOMAIN fs
    THEN WriteFile(fs, FilePath(userId), Stringify(memory), disk)
    ELSE fs

\* saveMemory(userId, memory): the file system after the call; a failed
\* write is caught and logged
saveMemory(fs, userId, memory, disk) ==
    WriteFile(fs, FilePath(userId), Stringify(memory), disk)

\* a context update that assigns lastProject whatever project is
UpdateContextAnyProject(memory, prompt, project) ==
    [memory EXCEPT
        !.lastProject = project,
        !.lastTask = prompt,
        !.conversation = Append(@, Turn("user", prompt.s))]

\* a context update that sends the system prompt again with every prompt
UpdateContextReprompting(memory, prompt, project) ==
    [memory EXCEPT
        !.lastProject = IF Truthy(project) THEN project ELSE @,
        !.lastTask = prompt,
        !.conversation = @ \o <<Turn("system", SystemPrompt), Turn("user", prompt.s)>>]

\* a context update that keeps the first task of the record
UpdateContextKeepingTask(memory, prompt, project) ==
    [memory EXCEPT
        !.lastProject = IF Truthy(project) THEN project ELSE @,
        !.lastTask = IF @ = Null THEN prompt ELSE @,
        !.conversation = Append(@, Turn("user", prompt.s))]

\* a context update that keeps the system turn and the new prompt only
UpdateContextWindowed(memory, prompt, project) ==
    [memory EXCEPT
        !.lastProject = IF Truthy(project) THEN project ELSE @,
        !.lastTask = prompt,
        !.conversation = <<@[1], Turn("user", prompt.s)>>]

\* lines 96-98: the context update on the working copy
UpdateContext(memory, prompt, project) ==
    [memory EXCEPT
        !.lastProject = IF Truthy(project) THEN project ELSE @,
        !.lastTask = prompt,
        !.conversation = Append(@, Turn("user", prompt.s))]

\* line 98: memory.conversation.push throws a TypeError when the value that
\* loadMemory returned has no conversation array
PushThrows(memory) == memory = EmptyObject

\* line 128: the assistant turn is pushed on the working copy
PushAssistant(memory, text) ==
    [memory EXCEPT !.conversation = Append(@, Turn("assistant", text))]

\* ------------------------------------------------------------------------
\* Requests and responses
\* ------------------------------------------------------------------------
\* req.body: absent (present = FALSE), or an object with the three fields,
\* a field that is not sent being undefined
Body(userId, prompt, project) ==
    [present |-> TRUE, userId |-> userId, prompt |-> prompt, project |-> project]

NoBody ==
    [present |-> FALSE, userId |-> Undefined, prompt |-> Undefined,
     project |-> Undefined]

Request(method, body) == [method |-> method, body |-> body]

NoRequest == Request("", NoBody)

\* res.status(status) with the JSON object sent; fields not sent are empty
Response(status, error, details, text, lastProject, lastTask) ==
    [status |-> status, error |-> error, details |-> details, text |-> text,
     lastProject |-> lastProject, lastTask |-> lastTask]

NoResponse == Response(0, "", "", <<>>, Null, Null)

ErrorResponse(status, error, details) ==
    Response(status, error, details, <<>>, Null, Null)

\* lines 77-90: what the handler does with a request before it loads memory
Classify(rq) ==
    IF rq.method = "OPTIONS" THEN "preflight"
    ELSE IF rq.method # "POST" THEN "method"
    ELSE IF ~rq.body.present THEN "throw"
    ELSE IF ~Truthy(rq.body.userId) THEN "nouser"
    ELSE IF ~Truthy(rq.body.prompt) \/ TypeOf(rq.body.prompt) # "string"
         THEN "noprompt"
    ELSE "accept"

\* the response of a request that is answered before memory is loaded
EarlyResponse(rq) ==
    CASE Classify(rq) = "preflight" -> ErrorResponse(200, "", "")
      [] Classify(rq) = "method" -> ErrorResponse(405, "Method not allowed", "")
      [] Classify(rq) = "throw" ->
            ErrorResponse(500, "Server error. Check backend logs.", "TypeError")
      [] Classify(rq) = "nouser" -> ErrorResponse(400, "Missing userId.", "")
      [] Classify(rq) = "noprompt" ->
            ErrorResponse(400, "Invalid request: prompt required.", "")
      [] OTHER -> NoResponse

\* ------------------------------------------------------------------------
\* State
\* ------------------------------------------------------------------------
VARIABLES
    files,      \* the files under the file system: path -> content
    writer,     \* for each file, the request whose saveMemory wrote it last
    pc,         \* per request: "new", "awaiting" (the completion), "done"
    input,      \* per request: the request received
    loaded,     \* per request: the record loadMemory returned
    memory,     \* per request: the working copy `memory`
    messages,   \* per request: the messages passed to the completion service
    answer,     \* per request: the answer of the completion service
    res,        \* per request: the response sent
    log,        \* per request: its loads, calls, writes and responses in order
    before,     \* per request: the content of its file when it was received
    seen        \* per request: the pc of every request when it was received

vars ==
    <<files, writer, pc, input, loaded, memory, messages, answer, res, log,
      before, seen>>

EmptyMemory == DefaultMemory(Undefined)

\* what is recorded for a file that does not exist
Absent == [kind |-> "absent", val |-> EmptyMemory]

NoAnswer == Answer("", <<>>)

Init ==
    /\ files = <<>>
    /\ writer = <<>>
    /\ pc = [r \in Reqs |-> "new"]
    /\ input = [r \in Reqs |-> NoRequest]
    /\ loaded = [r \in Reqs |-> EmptyMemory]
    /\ memory = [r \in Reqs |-> EmptyMemory]
    /\ messages = [r \in Reqs |-> <<>>]
    /\ res = [r \in Reqs |-> NoResponse]
    /\ answer = [r \in Reqs |-> NoAnswer]
    /\ log = [r \in Reqs |-> <<>>]
    /\ before = [r \in Reqs |-> Absent]
    /\ seen = [r \in Reqs |-> [q \in Reqs |-> "new"]]

\* ------------------------------------------------------------------------
\* Inputs
\* ------------------------------------------------------------------------
Methods == {"OPTIONS", "GET", "POST"}

\* "a", "b"
UserIds == {Str(<<97>>), Str(<<98>>)}

\* "hi", "ok"
Prompts == {Str(<<104, 105>>), Str(<<111, 107>>)}

\* "Alpha"
Alpha == Str(<<65, 108, 112, 104, 97>>)

\* a project field: sent, not sent, or sent as the empty string
ProjectValues == {Alpha, Undefined, Str(<<>>)}

\* a prompt field that is not sent, empty, or the number 7
BadPrompts == {Undefined, Str(<<>>), Num(7)}

\* the bodies of POST requests: none; the valid ones, with no project for
\* every userId and prompt and with a project, "Alpha" or the empty string,
\* for userId "a" and prompt "hi"; and the ones with a missing userId or an
\* unusable prompt
Bodies ==
    {NoBody}
      \cup {Body(u, p, Undefined) : u \in UserIds, p \in Prompts}
      \cup {Body(Str(<<97>>), Str(<<104, 105>>), j) : j \in ProjectValues}
      \cup {Body(Undefined, p, Undefined) : p \in {Str(<<104, 105>>), Undefined}}
      \cup {Body(Str(<<97>>), p, Undefined) : p \in BadPrompts}

\* the requests the handler is invoked with; the body of a request that is
\* not a POST is never looked at
Requests ==
    {Request(m, NoBody) : m \in Methods \ {"POST"}}
      \cup {Request("POST", b) : b \in Bodies}

\* the answer of the completion service: "As an AI, ok ✨"
Answers ==
    {Answer("text", <<65, 115, 32, 97, 110, 32, 65, 73, 44, 32, 111, 107, 32, 10024>>)}

\* the fragments completion texts are built from: "As an AI", "as ", "an ai",
\* "i do not have feelings", "ok", an approved glyph (D83D DE0A), a glyph that
\* is not approved outside the basic plane (D83D DE2D), and one inside (263A)
Fragments ==
    {<<65, 115, 32, 97, 110, 32, 65, 73>>, <<97, 115, 32>>,
     <<97, 110, 32, 97, 105>>, PatNoFeelings, <<111, 107>>,
     <<55357, 56842>>, <<55357, 56877>>, <<9786>>}

\* the texts of at most k fragments
RECURSIVE Texts(_)
Texts(k) ==
    IF k = 0 THEN {<<>>}
    ELSE Texts(k - 1) \cup {t \o f : t \in Texts(k - 1), f \in Fragments}

\* the answers of the completion service in the text pipeline's specification: every
\* text of at most MaxFrags fragments, and the answers that carry no content
TextAnswers ==
    {Answer("text", t) : t \in Texts(MaxFrags)}
      \cup {Answer(k, <<>>) : k \in {"nochoices", "nomessage", "nullcontent"}}

\* the request of the text pipeline's specification: POST {userId: "a", prompt: "hi"}
TextRequest == Request("POST", Body(Str(<<97>>), Str(<<104, 105>>), Undefined))

\* userIds whose file names meet: "b", and "x/../memory_b", which path.join
\* normalizes to the file of "b"
PathIds ==
    {Str(<<98>>),
     Str(<<120, 47, 46, 46, 47, 109, 101, 109, 111, 114, 121, 95, 98>>)}

\* the file of each userId, computed once
PathTable == [u \in UserIds \cup PathIds |-> FilePath(u)]

\* the file of request r's userId
PathOf(r) == PathTable[input[r].body.userId]

\* ------------------------------------------------------------------------
\* The handler
\* ------------------------------------------------------------------------
\* a handler that loads the memory of a request with a userId before it
\* looks at the prompt
ReceiveLoadingFirst(r, rq) ==
    /\ pc[r] = "new"
    /\ \A q \in 1..(r - 1) : pc[q] # "new"
    /\ input' = [input EXCEPT ![r] = rq]
    /\ IF Classify(rq) = "accept"
       THEN /\ pc' = [pc EXCEPT ![r] = "awaiting"]
            /\ loaded' = [loaded EXCEPT ![r] = loadMemory(files, rq.body.userId)]
            /\ memory' = [memory EXCEPT ![r] =
                   UpdateContext(loaded'[r], rq.body.prompt, rq.body.project)]
            /\ messages' = [messages EXCEPT ![r] = memory'[r].conversation]
            /\ log' = [log EXCEPT ![r] = <<"load", "call">>]
            /\ before' = [before EXCEPT ![r] =
                   IF PathTable[rq.body.userId] \in DOMAIN files
                   THEN files[PathTable[rq.body.userId]] ELSE Absent]
            /\ UNCHANGED res
       ELSE /\ pc' = [pc EXCEPT ![r] = "done"]
            /\ res' = [res EXCEPT ![r] = EarlyResponse(rq)]
            /\ IF Classify(rq) = "noprompt"
               THEN /\ loaded' = [loaded EXCEPT ![r] =
                           loadMemory(files, rq.body.userId)]
                    /\ log' = [log EXCEPT ![r] = <<"load", "respond">>]
               ELSE /\ log' = [log EXCEPT ![r] = <<"respond">>]
                    /\ UNCHANGED loaded
            /\ UNCHANGED <<memory, messages, before>>
    /\ seen' = [seen EXCEPT ![r] = pc]
    /\ UNCHANGED <<files, writer, answer>>

\* Lines 72-106: the handler from its start to the await of the completion.
\* A request that is not accepted is answered at once; an accepted one loads
\* its memory, updates the working copy and suspends on the completion call,
\* or is answered 500 when the update of the loaded value throws.
Receive(r, rq) ==
    /\ pc[r] = "new"
    /\ \A q \in 1..(r - 1) : pc[q] # "new"
    /\ input' = [input EXCEPT ![r] = rq]
    /\ IF Classify(rq) = "accept"
       THEN /\ loaded' = [loaded EXCEPT ![r] = loadMemory(files, rq.body.userId)]
            /\ before' = [before EXCEPT ![r] =
                   IF PathTable[rq.body.userId] \in DOMAIN files
                   THEN files[PathTable[rq.body.userId]] ELSE Absent]
            /\ IF PushThrows(loaded'[r])
               THEN /\ pc' = [pc EXCEPT ![r] = "done"]
                    /\ res' = [res EXCEPT ![r] =
                           ErrorResponse(500, "Server error. Check backend logs.",
                                         "TypeError")]
                    /\ log' = [log EXCEPT ![r] = <<"load", "respond">>]
                    /\ UNCHANGED <<memory, messages>>
               ELSE /\ pc' = [pc EXCEPT ![r] = "awaiting"]
                    /\ memory' = [memory EXCEPT ![r] =
                           UpdateContext(loaded'[r], rq.body.prompt,
                                         rq.body.project)]
                    /\ messages' = [messages EXCEPT ![r] = memory'[r].conversation]
                    /\ log' = [log EXCEPT ![r] = <<"load", "call">>]
                    /\ UNCHANGED res
       ELSE /\ pc' = [pc EXCEPT ![r] = "done"]
            /\ res' = [res EXCEPT ![r] = EarlyResponse(rq)]
            /\ log' = [log EXCEPT ![r] = <<"respond">>]
            /\ UNCHANGED <<loaded, memory, messages, before>>
    /\ seen' = [seen EXCEPT ![r] = pc]
    /\ UNCHANGED <<files, writer, answer>>

\* Lines 108-138: the completion call returned and text is the final text
\* made of its answer; the assistant turn is pushed, the record saved and
\* the request answered 200.
Commit(r, text, disk) ==
    /\ memory' = [memory EXCEPT ![r] = PushAssistant(@, text)]
    /\ files' = saveMemory(files, input[r].body.userId, memory'[r], disk)
    /\ writer' = IF WriteSucceeds(PathOf(r), disk) \/ WriteCuts(PathOf(r), disk)
                 THEN [p \in DOMAIN files' |-> IF p = PathOf(r) THEN r ELSE writer[p]]
                 ELSE writer
    /\ res' = [res EXCEPT ![r] =
           Response(200, "", "", text, memory'[r].lastProject, memory'[r].lastTask)]
    /\ log' = [log EXCEPT ![r] =
           @ \o <<IF WriteSucceeds(PathOf(r), disk) THEN "write" ELSE "writefail",
                  "respond">>]
    /\ pc' = [pc EXCEPT ![r] = "done"]
    /\ UNCHANGED <<input, loaded, messages, before, seen>>

\* lines 108-125: the texts the pipeline can make of an answer, one per
\* random glyph when a glyph is added
FinalTexts(ans) ==
    {AddEmoji(s, idx) :
        s \in {Sanitize(ContentOrFallback(ans))}, idx \in RandomIndices}

\* the final texts of the answers of the service, computed once
FinalTextTable == [ans \in Answers |-> FinalTexts(ans)]

\* the final texts of the answers of the text pipeline's specification, computed once
TextFinalTable == [ans \in TextAnswers |-> FinalTexts(ans)]

\* the completion call of request r returns ans
Resolve(r, ans, disk) ==
    /\ pc[r] = "awaiting"
    /\ answer' = [answer EXCEPT ![r] = ans]
    /\ \E text \in (IF ans \in Answers THEN FinalTextTable[ans]
                    ELSE TextFinalTable[ans]) :
          Commit(r, text, disk)

\* a catch block that saves the working copy before it answers
RejectSaving(r) ==
    /\ pc[r] = "awaiting"
    /\ files' = saveMemory(files, input[r].body.userId, memory[r], "ok")
    /\ writer' = [p \in DOMAIN files' |-> IF p = PathOf(r) THEN r ELSE writer[p]]
    /\ res' = [res EXCEPT ![r] =
           ErrorResponse(500, "Server error. Check backend logs.", "ServiceError")]
    /\ log' = [log EXCEPT ![r] = Append(@, "respond")]
    /\ pc' = [pc EXCEPT ![r] = "done"]
    /\ UNCHANGED <<input, loaded, memory, messages, answer, before, seen>>

\* a catch block that takes the user turn off the working copy
RejectRollingBack(r) ==
    /\ pc[r] = "awaiting"
    /\ memory' = [memory EXCEPT ![r] = loaded[r]]
    /\ res' = [res EXCEPT ![r] =
           ErrorResponse(500, "Server error. Check backend logs.", "ServiceError")]
    /\ log' = [log EXCEPT ![r] = Append(@, "respond")]
    /\ pc' = [pc EXCEPT ![r] = "done"]
    /\ UNCHANGED <<files, writer, input, loaded, messages, answer, before, seen>>

\* Lines 139-145: the completion call throws; the catch block answers 500.
Reject(r) ==
    /\ pc[r] = "awaiting"
    /\ res' = [res EXCEPT ![r] =
           ErrorResponse(500, "Server error. Check backend logs.", "ServiceError")]
    /\ log' = [log EXCEPT ![r] = Append(@, "respond")]
    /\ pc' = [pc EXCEPT ![r] = "done"]
    /\ UNCHANGED <<files, writer, input, loaded, memory, messages, answer,
                   before, seen>>

Next ==
    \/ \E r \in Reqs, rq \in Requests : Receive(r, rq)
    \/ \E r \in Reqs, ans \in Answers, disk \in DiskOutcomes :
          Resolve(r, ans, disk)
    \/ \E r \in Reqs : Reject(r)

Spec == Init /\ [][Next]_vars

\* The text pipeline on every answer: one accepted request, whose completion
\* call returns any answer of TextAnswers or throws.
NextText ==
    \/ Receive(1, TextRequest)
    \/ \E ans \in TextAnswers, disk \in DiskOutcomes : Resolve(1, ans, disk)
    \/ Reject(1)

SpecText == Init /\ [][NextText]_vars

\* The handler on requests whose userIds are those of PathIds.
PathRequests ==
    {Request("POST", Body(u, p, Undefined)) : u \in PathIds, p \in Prompts}

NextPaths ==
    \/ \E r \in Reqs, rq \in PathRequests : Receive(r, rq)
    \/ \E r \in Reqs, ans \in Answers, disk \in DiskOutcomes :
          Resolve(r, ans, disk)
    \/ \E r \in Reqs : Reject(r)

SpecPaths == Init /\ [][NextPaths]_vars

\* The handler on a memory directory that holds a file it cannot use: the
\* file of userId "a" is there at start-up and is cut short, unreadable, or
\* the JSON text {}.
UnusableContents == {CutShort, Unreadable, Stringify(EmptyObject)}

\* POST {userId, prompt: "hi"} for each userId
StoreRequests ==
    {Request("POST", Body(u, Str(<<104, 105>>), Undefined)) : u \in UserIds}

InitStore ==
    /\ \E c \in UnusableContents : files = [p \in {PathTable[Str(<<97>>)]} |-> c]
    /\ writer = [p \in {PathTable[Str(<<97>>)]} |-> 0]
    /\ pc = [r \in Reqs |-> "new"]
    /\ input = [r \in Reqs |-> NoRequest]
    /\ loaded = [r \in Reqs |-> EmptyMemory]
    /\ memory = [r \in Reqs |-> EmptyMemory]
    /\ messages = [r \in Reqs |-> <<>>]
    /\ res = [r \in Reqs |-> NoResponse]
    /\ answer = [r \in Reqs |-> NoAnswer]
    /\ log = [r \in Reqs |-> <<>>]
    /\ before = [r \in Reqs |-> Absent]
    /\ seen = [r \in Reqs |-> [q \in Reqs |-> "new"]]

NextStore ==
    \/ \E r \in Reqs, rq \in StoreRequests : Receive(r, rq)
    \/ \E r \in Reqs, ans \in Answers, disk \in DiskOutcomes :
          Resolve(r, ans, disk)
    \/ \E r \in Reqs : Reject(r)

\* No completion call stays pending for ever: a call that does not return is
\* rejected in the end (the client gives up a request that is not answered).
\* Resolve and Reject of a request are enabled exactly while it awaits, so
\* weak fairness of Reject says that the request leaves the await, by either.
SpecStore ==
    InitStore /\ [][NextStore]_vars /\ \A r \in Reqs : WF_vars(Reject(r))


\* ------------------------------------------------------------------------
\* Vocabulary of the properties
\* ------------------------------------------------------------------------
\* a POST request with a non-empty string userId and a non-empty string prompt
ValidPost(rq) ==
    /\ rq.method = "POST"
    /\ rq.body.present
    /\ rq.body.userId.t = "string" /\ rq.body.userId.s # <<>>
    /\ rq.body.prompt.t = "string" /\ rq.body.prompt.s # <<>>

\* request r went past validation (it loaded memory)
Accepted(r) == pc[r] # "new" /\ ValidPost(input[r])

\* request r was answered 200 with a text
Committed(r) == Accepted(r) /\ pc[r] = "done" /\ res[r].status = 200

\* request r was answered 200 and its write succeeded
Saved(r) == Committed(r) /\ log[r] = <<"load", "call", "write", "respond">>

\* the completion call of request r failed
Failed(r) ==
    /\ Accepted(r) /\ pc[r] = "done" /\ res[r].status = 500
    /\ log[r] = <<"load", "call", "respond">>

\* the file of r's userId holds what r wrote
Current(r) == PathOf(r) \in DOMAIN files /\ writer[PathOf(r)] = r

\* the record stored in the file of r's userId
StoredOf(r) == files[PathOf(r)].val

SameUser(r, q) == input[r].body.userId = input[q].body.userId

\* no other request for r's userId was in flight while r was
Alone(r) ==
    \A q \in Reqs \ {r} :
        (Accepted(q) /\ SameUser(r, q)) =>
            (seen[r][q] # "awaiting" /\ seen[q][r] # "awaiting")

\* no request for r's userId was received after r ended
Latest(r) ==
    \A q \in Reqs \ {r} : (Accepted(q) /\ SameUser(r, q)) => seen[q][r] # "done"

\* the file content holds a record
HoldsRecord(content) == content.kind = "json" /\ content.val # EmptyObject

\* the conversation held by a file content; none if the file is absent
ConvOf(content) == IF content = Absent THEN <<>> ELSE content.val.conversation

SystemTurn == Turn("system", SystemPrompt)
UserTurn(r) == Turn("user", input[r].body.prompt.s)
AssistantTurn(r) == Turn("assistant", res[r].text)

\* ------------------------------------------------------------------------
\* C1
\* ------------------------------------------------------------------------
\* C1: a valid POST for a userId with no stored record, whose completion and
\* save succeed, leaves a stored conversation of exactly three turns: the
\* system turn, the user turn with the prompt, the assistant turn with the
\* final text.
C1_NewUserThreeTurns ==
    \A r \in Reqs :
        (Saved(r) /\ Current(r) /\ before[r] = Absent) =>
            StoredOf(r).conversation = <<SystemTurn, UserTurn(r), AssistantTurn(r)>>

C1_Witness ==
    \E r \in Reqs : Saved(r) /\ Current(r) /\ before[r] = Absent

\* ------------------------------------------------------------------------
\* C2
\* ------------------------------------------------------------------------
\* C2: append-only law. A successful request for a userId that has a stored
\* record, with no other request of that userId in flight, leaves the stored
\* conversation equal to the one stored before followed by exactly the user
\* turn and the assistant turn.
C2_AppendOnly ==
    \A r \in Reqs :
        (Saved(r) /\ Current(r) /\ HoldsRecord(before[r]) /\ Alone(r)) =>
            StoredOf(r).conversation =
                before[r].val.conversation \o <<UserTurn(r), AssistantTurn(r)>>

C2_Witness ==
    \E r \in Reqs :
        /\ Saved(r) /\ Current(r) /\ HoldsRecord(before[r]) /\ Alone(r)
        /\ Len(StoredOf(r).conversation) = 5

\* ------------------------------------------------------------------------
\* C3
\* ------------------------------------------------------------------------
\* the conversation a request for a userId finds: the stored one, or the
\* template's when there is none
FoundConv(r) ==
    IF HoldsRecord(before[r]) THEN ConvOf(before[r]) ELSE <<SystemTurn>>

\* r and q, of one userId, both loaded before either saved, and both saved
Raced(r, q) ==
    /\ r # q /\ Saved(r) /\ Saved(q) /\ SameUser(r, q)
    /\ seen[q][r] = "awaiting"

\* C3: lost update. When two requests of one userId both load before either
\* saves and both succeed, the stored record is the one of the request that
\* saved last: what that request loaded followed by its two turns, and
\* nothing of the other request.
C3_LastWriterWins ==
    \A r, q \in Reqs :
        (Raced(r, q) /\ writer[PathOf(r)] \in {r, q}) =>
            LET w == writer[PathOf(r)] IN
                /\ StoredOf(w) = memory[w]
                /\ StoredOf(w).conversation =
                       FoundConv(w) \o <<UserTurn(w), AssistantTurn(w)>>
                /\ StoredOf(w).lastTask = input[w].body.prompt

C3_Witness ==
    \E r, q \in Reqs :
        /\ Raced(r, q) /\ writer[PathOf(r)] = r
        /\ input[r].body.prompt # input[q].body.prompt
        /\ before[r] = before[q]

\* ------------------------------------------------------------------------
\* C4
\* ------------------------------------------------------------------------
\* the completion call of request r throws in this step
CompletionFails(r) == pc[r] = "awaiting" /\ pc'[r] = "done" /\ answer'[r] = NoAnswer

\* C4: when the completion call of an accepted request fails, the request is
\* answered 500 "Server error. Check backend logs.", save is not called for
\* it, and the stored records are what they were; a failed request that ran
\* alone and is the last of its userId leaves the file as it found it.
C4_FailureNotPersisted ==
    /\ [][\A r \in Reqs :
             CompletionFails(r) =>
                 /\ res'[r].status = 500
                 /\ res'[r].error = "Server error. Check backend logs."
                 /\ log'[r] = <<"load", "call", "respond">>
                 /\ files' = files]_vars
    /\ [](\A r \in Reqs :
             (Failed(r) /\ Alone(r) /\ Latest(r)) =>
                 IF before[r] = Absent THEN PathOf(r) \notin DOMAIN files
                 ELSE PathOf(r) \in DOMAIN files /\ files[PathOf(r)] = before[r])

C4_Witness ==
    \E r \in Reqs :
        /\ Failed(r) /\ Alone(r) /\ Latest(r)
        /\ HoldsRecord(before[r])
        /\ memory[r].conversation = ConvOf(before[r]) \o <<UserTurn(r)>>

\* ------------------------------------------------------------------------
\* C5
\* ------------------------------------------------------------------------
\* C5 as stated: after a failed completion the stored record of the userId
\* carries the request's user turn at its tail.
C5_OrphanPersisted ==
    \A r \in Reqs :
        (Failed(r) /\ Alone(r) /\ Latest(r)) =>
            /\ PathOf(r) \in DOMAIN files
            /\ StoredOf(r).conversation # <<>>
            /\ StoredOf(r).conversation[Len(StoredOf(r).conversation)] = UserTurn(r)

\* q is received after the failed request r ended, and no other request of
\* the userId wrote the file from r's load on
NextAfterFailure(r, q) ==
    /\ r # q /\ Failed(r) /\ Accepted(q) /\ SameUser(r, q)
    /\ seen[q][r] = "done"
    /\ \A w \in Reqs \ {r, q} :
          (Saved(w) /\ SameUser(r, w)) => seen[r][w] = "done"

\* C5 amended: when the completion call fails, the user turn stays on the
\* request's working copy (it is not rolled back), but the working copy is
\* not saved: the next request of the userId is sent the conversation that
\* was stored before the failed request, followed by its own user turn only.
C5_OrphanNotPersisted ==
    \A r, q \in Reqs :
        NextAfterFailure(r, q) =>
            /\ memory[r].conversation = FoundConv(r) \o <<UserTurn(r)>>
            /\ messages[q] = FoundConv(r) \o <<UserTurn(q)>>

C5_Witness ==
    \E r, q \in Reqs :
        /\ NextAfterFailure(r, q)
        /\ input[r].body.prompt # input[q].body.prompt

\* ------------------------------------------------------------------------
\* C6
\* ------------------------------------------------------------------------
\* "As an AI"
Phrase == <<65, 115, 32, 97, 110, 32, 65, 73>>

\* C6: for every completion text that contains "As an AI" in any letter case,
\* the final text (returned, and stored as the assistant turn) contains no
\* occurrence of the phrase in any letter case.
C6_PhraseNeverInFinalText ==
    \A r \in Reqs :
        (Committed(r) /\ answer[r].kind = "text" /\ ContainsCI(answer[r].s, Phrase))
            => /\ ~ContainsCI(res[r].text, Phrase)
               /\ ~ContainsCI(memory[r].conversation[Len(memory[r].conversation)].content,
                              Phrase)

\* ------------------------------------------------------------------------
\* C7
\* ------------------------------------------------------------------------
\* the approved glyphs, each as its UTF-16 code units
ApprovedGlyphs ==
    {<<55357, 56832>>, <<55357, 56836>>, <<55357, 56842>>, <<55357, 56841>>,
     <<10024>>, <<55357, 56613>>, <<55357, 56481>>, <<10084, 65039>>,
     <<55357, 56397>>, <<55356, 57225>>, <<55357, 56960>>, <<55358, 56599>>,
     <<55357, 56473>>, <<55357, 56846>>, <<55357, 56490>>}

\* the candidate glyphs
CandidateGlyphs ==
    {<<55357, 56836>>, <<55357, 56481>>, <<10024>>, <<55357, 56613>>,
     <<55357, 56397>>, <<55356, 57225>>, <<55357, 56960>>, <<55358, 56599>>,
     <<55357, 56490>>, <<55357, 56846>>}

\* the test on code units: some code unit of the text is a code unit of an
\* approved glyph
HoldsApprovedUnit(text) ==
    \E i \in 1..Len(text) : \E g \in ApprovedGlyphs : \E k \in 1..Len(g) :
        text[i] = g[k]

\* the sanitized text of request r's answer
SanitizedOf(r) == Sanitize(ContentOrFallback(answer[r]))

\* C7: affect guarantee. A sanitized text that holds no code unit of an
\* approved glyph is followed, in the final text, by one space and exactly one
\* candidate glyph; a sanitized text that holds one is the final text.
C7_AffectGuarantee ==
    \A r \in Reqs :
        Committed(r) =>
            IF HoldsApprovedUnit(SanitizedOf(r))
            THEN res[r].text = SanitizedOf(r)
            ELSE \E g \in CandidateGlyphs :
                    res[r].text = SanitizedOf(r) \o <<32>> \o g

\* a text with a glyph that is not approved gets a candidate glyph appended
C7_Witness ==
    \E r \in Reqs :
        /\ Committed(r)
        /\ \E i \in 1..Len(SanitizedOf(r)) : SanitizedOf(r)[i] = 9786
        /\ ~HoldsApprovedUnit(SanitizedOf(r))
        /\ Len(res[r].text) > Len(SanitizedOf(r))

\* ------------------------------------------------------------------------
\* C8
\* ------------------------------------------------------------------------
\* the lastProject stored for r's userId when r was received
PrevProject(r) ==
    IF HoldsRecord(before[r]) THEN before[r].val.lastProject ELSE Null

\* C8 as stated: after a successful request the stored lastProject is the
\* request's project if it supplied a non-null one, and otherwise the
\* lastProject stored before.
C8_LastProjectNonNull ==
    \A r \in Reqs :
        (Saved(r) /\ Current(r)) =>
            StoredOf(r).lastProject =
                IF input[r].body.project.t \notin {"undefined", "null"}
                THEN input[r].body.project
                ELSE PrevProject(r)

\* a project value that is neither omitted, null, the empty string nor 0
NonEmptyProject(j) ==
    \/ j.t = "string" /\ j.s # <<>>
    \/ j.t = "number" /\ j.n # 0

\* C8 amended: after a successful request the stored lastProject is the
\* request's project if it supplied a non-empty one, and otherwise (project
\* omitted, null or the empty string) the lastProject stored before.
C8_LastProjectNonEmpty ==
    \A r \in Reqs :
        (Saved(r) /\ Current(r)) =>
            StoredOf(r).lastProject =
                IF NonEmptyProject(input[r].body.project)
                THEN input[r].body.project
                ELSE PrevProject(r)

\* a request with project "Alpha", then one that omits project: "Alpha" stays
C8_Witness ==
    \E r, q \in Reqs :
        /\ Saved(r) /\ Saved(q) /\ Current(q) /\ SameUser(r, q)
        /\ seen[q][r] = "done"
        /\ input[r].body.project = Alpha
        /\ input[q].body.project = Undefined
        /\ StoredOf(q).lastProject = Alpha

\* ------------------------------------------------------------------------
\* C9
\* ------------------------------------------------------------------------
\* the JSON error object of a response
IsError(rs, status, error) == rs.status = status /\ rs.error = error

\* the userId of a POST request is missing
MissingUserId(rq) == ~rq.body.present \/ rq.body.userId.t = "undefined"

\* the prompt is missing, the empty string, or not a string
BadPrompt(rq) ==
    \/ rq.body.prompt.t # "string"
    \/ rq.body.prompt.s = <<>>

\* C9: request classification. OPTIONS gets 200 with an empty body; a method
\* other than POST and OPTIONS gets 405 "Method not allowed"; a POST whose
\* userId is missing gets 400 "Missing userId."; a POST with a userId and a
\* prompt that is missing, empty or not a string gets 400 "Invalid request:
\* prompt required."; the checks apply in this order.
C9_Classification ==
    \A r \in Reqs :
        pc[r] # "new" =>
            /\ input[r].method = "OPTIONS" =>
                  pc[r] = "done" /\ res[r] = ErrorResponse(200, "", "")
            /\ input[r].method \notin {"POST", "OPTIONS"} =>
                  pc[r] = "done" /\ IsError(res[r], 405, "Method not allowed")
            /\ (input[r].method = "POST" /\ MissingUserId(input[r])) =>
                  pc[r] = "done" /\ IsError(res[r], 400, "Missing userId.")
            /\ (input[r].method = "POST" /\ ~MissingUserId(input[r])
                  /\ BadPrompt(input[r])) =>
                  pc[r] = "done"
                    /\ IsError(res[r], 400, "Invalid request: prompt required.")

\* ------------------------------------------------------------------------
\* C10
\* ------------------------------------------------------------------------
\* request r is answered 400, 405 or as a preflight in this step
RejectedNow(r) == pc[r] = "new" /\ pc'[r] = "done" /\ res'[r].status \in {200, 400, 405}

\* C10: a request answered 400 or 405, or an OPTIONS preflight, changes no
\* state: no file is read, created or changed, and the completion service is
\* not called.
C10_RejectionTouchesNothing ==
    [][\A r \in Reqs :
          RejectedNow(r) =>
              /\ files' = files
              /\ log'[r] = <<"respond">>
              /\ loaded' = loaded /\ memory' = memory
              /\ messages' = messages]_vars

\* a request was rejected with 400 while a record is stored
C10_Witness ==
    \E r, q \in Reqs :
        /\ pc[r] = "done" /\ res[r].status = 400 /\ input[r].body.userId \in UserIds
        /\ Saved(q) /\ seen[r][q] = "done"
        /\ input[q].body.userId = input[r].body.userId

\* ------------------------------------------------------------------------
\* C11
\* ------------------------------------------------------------------------
\* the file exists and holds no record: it cannot be read or parsed, or the
\* value parsed is not a record
Malformed(content) == content # Absent /\ ~HoldsRecord(content)

\* C11: fail-soft read. For a request whose userId has a malformed stored
\* record, load returns the default template, and the request does not fail
\* on it: it is answered 500 only when its completion call failed, and 200
\* when the completion succeeded.
C11_FailSoftRead ==
    \A r \in Reqs :
        (Accepted(r) /\ Malformed(before[r])) =>
            /\ loaded[r] = DefaultMemory(input[r].body.userId)
            /\ pc[r] = "done" => (Committed(r) \/ Failed(r))
            /\ answer[r] # NoAnswer => Committed(r)

\* ------------------------------------------------------------------------
\* C12
\* ------------------------------------------------------------------------
\* the completion of request r succeeded and its save failed
SaveFailed(r) ==
    Committed(r) /\ log[r] = <<"load", "call", "writefail", "respond">>

\* C12: fail-soft write. A request whose completion succeeded and whose save
\* failed is answered 200 with the final text and the lastProject and
\* lastTask of its working record, not 500, and the stored record of its
\* userId is what it was before the request (the request ran alone and is
\* the last of its userId).
C12_FailSoftWrite ==
    \A r \in Reqs :
        SaveFailed(r) =>
            /\ res[r].status = 200
            /\ Turn("assistant", res[r].text)
                   = memory[r].conversation[Len(memory[r].conversation)]
            /\ res[r].lastProject = memory[r].lastProject
            /\ res[r].lastTask = memory[r].lastTask
            /\ (Alone(r) /\ Latest(r)) =>
                   IF before[r] = Absent THEN PathOf(r) \notin DOMAIN files
                   ELSE PathOf(r) \in DOMAIN files /\ files[PathOf(r)] = before[r]

\* ------------------------------------------------------------------------
\* C13
\* ------------------------------------------------------------------------
\* the service returned and its answer has no first choice, no message, no
\* content, or the empty string as content
NoContent(ans) ==
    \/ ans.kind \in {"nochoices", "nomessage", "nullcontent"}
    \/ ans.kind = "text" /\ ans.s = <<>>

\* C13: fallback. A completion that returns with no content is replaced by
\* "No reply generated.", which goes through sanitization (it holds no banned
\* phrase), the affect step (it holds no glyph, one candidate is added) and
\* the commit: the assistant turn holds the final text, save is called, and
\* the request is answered 200.
C13_Fallback ==
    \A r \in Reqs :
        (pc[r] = "done" /\ NoContent(answer[r])) =>
            /\ res[r].status = 200
            /\ \E g \in CandidateGlyphs : res[r].text = NoReply \o <<32>> \o g
            /\ memory[r].conversation =
                   messages[r] \o <<Turn("assistant", res[r].text)>>
            /\ res[r].lastTask = input[r].body.prompt
            /\ Len(log[r]) = 4 /\ log[r][3] \in {"write", "writefail"}
            /\ (Saved(r) /\ Current(r)) => StoredOf(r) = memory[r]

C13_Witness ==
    \E r \in Reqs :
        /\ Saved(r) /\ Current(r)
        /\ answer[r].kind = "nomessage"
        /\ StoredOf(r).conversation[3].content = res[r].text

\* ------------------------------------------------------------------------
\* C14
\* ------------------------------------------------------------------------
\* the records stored in the files
StoredRecords == {files[p].val : p \in {f \in DOMAIN files : HoldsRecord(files[f])}}

\* C14: system-turn invariant. The conversation of every stored record holds
\* exactly one system turn, the template's, at its first position.
C14_OneSystemTurn ==
    \A m \in StoredRecords :
        /\ m.conversation # <<>>
        /\ m.conversation[1] = SystemTurn
        /\ \A i \in 2..Len(m.conversation) : m.conversation[i].role # "system"

\* a record of two exchanges is stored
C14_Witness ==
    \E r, q \in Reqs :
        /\ Saved(r) /\ Current(r) /\ SameUser(r, q)
        /\ Len(StoredOf(r).conversation) = 5
        /\ StoredOf(r).conversation[1] = SystemTurn

\* ------------------------------------------------------------------------
\* C15
\* ------------------------------------------------------------------------
\* C15: only fully formed records are stored. The conversation of every
\* stored record is the system turn followed by (user, assistant) pairs in
\* strict alternation: it has as many user turns as assistant turns and
\* never ends with a user turn.
C15_FullyFormed ==
    \A m \in StoredRecords :
        /\ Len(m.conversation) % 2 = 1
        /\ m.conversation[1].role = "system"
        /\ \A i \in 2..Len(m.conversation) :
              m.conversation[i].role = IF i % 2 = 0 THEN "user" ELSE "assistant"

\* a record is stored by a request received after a request of its userId
\* failed with its user turn on the working copy
C15_Witness ==
    \E r, q \in Reqs :
        /\ Failed(q) /\ Saved(r) /\ Current(r) /\ SameUser(r, q)
        /\ seen[r][q] = "done"
        /\ memory[q].conversation[Len(memory[q].conversation)].role = "user"

\* ------------------------------------------------------------------------
\* C16
\* ------------------------------------------------------------------------
\* the positions of the user turns of a conversation
UserPositions(conv) == {i \in 1..Len(conv) : conv[i].role = "user"}

\* the last of a non-empty set of positions
LastOf(S) == CHOOSE i \in S : \A j \in S : j <= i

\* C16: lastTask mirror. A stored record with no user turn has lastTask null;
\* a stored record with a user turn has lastTask equal to the content of its
\* last user turn.
C16_LastTaskMirror ==
    \A m \in StoredRecords :
        IF UserPositions(m.conversation) = {}
        THEN m.lastTask = Null
        ELSE m.lastTask = Str(m.conversation[LastOf(UserPositions(m.conversation))].content)

\* a stored record holds two user turns with different prompts
C16_Witness ==
    \E m \in StoredRecords :
        /\ Len(m.conversation) = 5
        /\ m.conversation[2].content # m.conversation[4].content
        /\ m.lastTask = Str(m.conversation[4].content)

\* ------------------------------------------------------------------------
\* C17
\* ------------------------------------------------------------------------
\* what an accepted request has done so far, in order: one load and one
\* completion call; then, the call having returned, one save and one
\* response 200; or, the call having thrown, one response 500 and no save
InOrder(r) ==
    \/ pc[r] = "awaiting" /\ log[r] = <<"load", "call">>
           /\ answer[r] = NoAnswer /\ res[r] = NoResponse
    \/ pc[r] = "done" /\ answer[r] # NoAnswer /\ res[r].status = 200
           /\ log[r] \in {<<"load", "call", "write", "respond">>,
                          <<"load", "call", "writefail", "respond">>}
    \/ pc[r] = "done" /\ answer[r] = NoAnswer /\ res[r].status = 500
           /\ log[r] = <<"load", "call", "respond">>

\* C17: per-request ordering and no retry. Every accepted request does, in
\* order, one load, one completion call, and then one save followed by one
\* response 200 when the call succeeded, or one response 500 and no save
\* when it failed; a request that has ended does nothing more; and, the
\* completion service answering every call, every accepted request ends
\* either committed or aborted.
C17_OrderedNoRetry ==
    /\ [](\A r \in Reqs : Accepted(r) => InOrder(r))
    /\ [][\A r \in Reqs :
             pc[r] = "done" =>
                 /\ pc'[r] = "done" /\ res'[r] = res[r] /\ log'[r] = log[r]
                 /\ answer'[r] = answer[r]]_vars
    /\ \A r \in Reqs :
          (pc[r] = "awaiting") ~> (Committed(r) \/ Failed(r))

\* ------------------------------------------------------------------------
\* C18
\* ------------------------------------------------------------------------
\* request r called the completion service
Called(r) == Accepted(r) /\ Len(log[r]) >= 2 /\ log[r][2] = "call"

\* C18: completion context. The messages passed to the completion service
\* are the conversation the request loaded (the stored one, or the
\* template's), every turn in order, followed by one user turn that holds
\* the prompt.
C18_CompletionContext ==
    \A r \in Reqs :
        Called(r) =>
            /\ messages[r] = loaded[r].conversation \o <<UserTurn(r)>>
            /\ messages[r] = FoundConv(r) \o <<UserTurn(r)>>

\* a request is sent the stored exchange of an earlier one and its prompt
C18_Witness ==
    \E r \in Reqs :
        /\ Called(r) /\ HoldsRecord(before[r])
        /\ Len(messages[r]) = 4
        /\ messages[r][2] # messages[r][4]

\* ------------------------------------------------------------------------
\* C19
\* ------------------------------------------------------------------------
\* C19: per-key isolation. Requests that carry different userIds use
\* different files, and the record a request reads is one that was stored
\* for its own userId: no request reads or changes the record of another
\* userId.
C19_PerKeyIsolation ==
    /\ \A r, q \in Reqs :
          (Accepted(r) /\ Accepted(q) /\ ~SameUser(r, q)) => PathOf(r) # PathOf(q)
    /\ \A r \in Reqs :
          (Accepted(r) /\ HoldsRecord(before[r])) =>
              before[r].val.userId = input[r].body.userId
    /\ \A r \in Reqs :
          (Saved(r) /\ Current(r)) => StoredOf(r).userId = input[r].body.userId

====
